---- MODULE Spec2Model ----
(***************************************************************************)
(* SignalQualityCalculator (PixelPilot, wfbngrtl8812): three time-stamped  *)
(* sample windows (RSSI, SNR, FEC) and an IDR code, guarded by one         *)
(* std::recursive_mutex.  Producer threads call add_rssi / add_snr /       *)
(* add_fec_data, or the public get_average on an array of their own; one   *)
(* consumer thread calls calculate_signal_quality.                         *)
(*                                                                         *)
(* One unit of `now` is one second, so kAveragingWindow is 1.  Every read   *)
(* of std::chrono::steady_clock::now() in the code is a read of `now` in   *)
(* the step that contains it; the clock may advance between any two steps. *)
(*                                                                         *)
(* Floating point: a mean is kept as the pair (sum, count) it is the       *)
(* quotient of.  The link score is computed as the code does, in binary32  *)
(* with round-to-nearest-even at each operation; the conversion to int     *)
(* truncates toward zero as C++ does.                                      *)
(***************************************************************************)
EXTENDS Integers, Sequences, FiniteSets, TLC

\* ---------------------------------------------------------------- bounds
\* The clock stops advancing at MaxTime.
MaxTime == 2
\* At most MaxOps producer calls are started in one behaviour.
MaxOps == 3

\* A window of the arithmetic specification holds at most MaxSamples samples.
MaxSamples == 2
\* and the long SNR windows of it hold exactly MaxLongSamples samples.
MaxLongSamples == 5

\* ----------------------------------------------------- program constants
\* SignalQualityCalculator.h:102  kAveragingWindow{std::chrono::seconds(1)}
kAveragingWindow == 1
\* SignalQualityCalculator.cpp:156  generate_random_string(4)
IdrLength == 4
\* SignalQualityCalculator.cpp:130  return {300, 300}
EmptyFecSentinel == 300

\* SignalQualityCalculator.cpp:9  characters = "abcdefghijklmnopqrstuvwxyz"
characters == <<"a", "b", "c", "d", "e", "f", "g", "h", "i", "j", "k", "l", "m",
                "n", "o", "p", "q", "r", "s", "t", "u", "v", "w", "x", "y", "z">>

\* The sequences of indices distrib(gen) may yield in one call of
\* generate_random_string: the model draws from these two.
RandomDraws == {<<0, 0, 0, 0>>, <<1, 25, 0, 7>>}

\* Threads
Producers == {"p1", "p2"}
Consumer == "c"
Threads == Producers \cup {Consumer}
NoThread == "none"

\* Inputs of the ingestion calls (uint8_t pairs, int8_t pairs, uint32_t triples).
RssiInputs == {<<40, 90>>, <<200, 10>>}
SnrInputs == {<<30, -6>>, <<12, 20>>}
FecInputs == {<<10, 2, 0>>, <<10, 1, 3>>}

VARIABLES
    now,          \* steady_clock
    m_rssis,      \* std::vector<RssiEntry>
    m_snrs,       \* std::vector<SnrEntry>
    m_fec_data,   \* std::vector<FecEntry>
    m_idr_code,   \* std::string, a sequence of characters
    m_mutex,      \* std::recursive_mutex: [owner, count]
    pc,           \* each thread's position
    entry,        \* add_fec_data's local entry, while a producer is past line 153
    ga_result,    \* the pair a caller's own get_average call is about to return
    avg_rssi,     \* calculate_signal_quality's local avg_rssi
    avg_snr,      \* calculate_signal_quality's local avg_snr
    ret,          \* calculate_signal_quality's local ret
    cutoff,       \* the cutoff each cleanup call of the running snapshot computed
    committed,    \* history: the shared state left by the last completed operation
    ops           \* history: producer calls started

vars == <<now, m_rssis, m_snrs, m_fec_data, m_idr_code, m_mutex, pc, entry, ga_result,
          avg_rssi, avg_snr, ret, cutoff, committed, ops>>

shared == <<m_rssis, m_snrs, m_fec_data, m_idr_code>>
locals == <<avg_rssi, avg_snr, ret, cutoff>>

\* ------------------------------------------------------------- helpers
Max(a, b) == IF a >= b THEN a ELSE b
Min(a, b) == IF a <= b THEN a ELSE b

\* C++ conversion of a finite float num/den (den > 0) to int: toward zero.
TruncDiv(num, den) == IF num >= 0 THEN num \div den ELSE -((-num) \div den)

RECURSIVE SumField(_, _)
SumField(seq, f) ==
    IF seq = <<>> THEN 0 ELSE seq[1][f] + SumField(Tail(seq), f)

\* ---------------------------------------------------------------- mutex
FreeMutex == [owner |-> NoThread, count |-> 0]

\* Variant: a mutex that excludes nobody.
CanLockNoExclusion(t) == TRUE

\* Variant: a plain std::mutex, which blocks its own owner.
CanLockNonRecursive(t) == m_mutex.owner = NoThread

\* std::recursive_mutex::lock does not block a thread that already owns it.
CanLock(t) == m_mutex.owner \in {NoThread, t}

Locked(t) == [owner |-> t, count |-> m_mutex.count + 1]

\* Variant: a release that frees the mutex whatever its hold count.
UnlockedFully(t) == FreeMutex

Unlocked(t) ==
    IF m_mutex.count = 1 THEN FreeMutex
    ELSE [owner |-> t, count |-> m_mutex.count - 1]

\* Variant: the loop stops one character short.
generate_random_string_short(length) ==
    {[i \in 1..(length - 1) |-> characters[d[i] + 1]] : d \in RandomDraws}

\* ------------------------------------------------- generate_random_string
\* The strings one call may return: result += characters[distrib(gen)],
\* length times.
generate_random_string(length) ==
    {[i \in 1..length |-> characters[d[i] + 1]] : d \in RandomDraws}

\* --------------------------------------------------------------- cleanup
\* The erase-remove idiom of the three cleanup_old_* functions: entries with
\* entry.timestamp < cutoff are removed, the others keep their order.
\* Variant: the entry stamped exactly at the cutoff is removed too.
ExpiredInclusive(e, cut) == e.timestamp <= cut

\* Variant: the comparison reversed, entries newer than the cutoff removed.
ExpiredNewer(e, cut) == e.timestamp > cut

Expired(e, cut) == e.timestamp < cut

RemoveExpired(array, cut) == SelectSeq(array, LAMBDA x : ~Expired(x, cut))

Cutoff == now - kAveragingWindow

\* Variants: a cleanup that removes nothing.
cleanup_old_rssi_data_skipped == m_rssis
cleanup_old_fec_data_skipped == m_fec_data

cleanup_old_rssi_data == RemoveExpired(m_rssis, Cutoff)
cleanup_old_snr_data == RemoveExpired(m_snrs, Cutoff)
cleanup_old_fec_data == RemoveExpired(m_fec_data, Cutoff)

\* Variant: an empty window reported with the marker mean -1.
AverageMarkedWhenEmpty(array) ==
    IF array = <<>> THEN [sum1 |-> -1, sum2 |-> -1, count |-> 0]
    ELSE [sum1 |-> SumField(array, "ant1"),
          sum2 |-> SumField(array, "ant2"),
          count |-> Len(array)]

\* ----------------------------------------------------------- get_average
\* sum1, sum2 and count of get_average; the means are sum/count when
\* count > 0 and 0 otherwise.
Average(array) ==
    [sum1 |-> SumField(array, "ant1"),
     sum2 |-> SumField(array, "ant2"),
     count |-> Len(array)]

NoAverage == [sum1 |-> 0, sum2 |-> 0, count |-> 0]

\* Denominator of the mean as a fraction.
Den(avg) == IF avg.count > 0 THEN avg.count ELSE 1

\* ------------------------------------------------------- float arithmetic
\* An IEEE-754 binary32 value is the pair <<m, e>> standing for m * 2^e, with
\* 2^23 <= |m| < 2^24, or <<0, 0>> for zero.  Every operation rounds to
\* nearest, ties to even, as the code's float arithmetic does.
FloatZero == <<0, 0>>

\* Rounding of the quotient N / D, 2^23 <= N / D < 2^24, to a mantissa.
RoundQuotient(N, D, e) ==
    LET q == N \div D
        r == N % D
        m == IF 2 * r > D \/ (2 * r = D /\ q % 2 = 1) THEN q + 1 ELSE q
    IN  IF m = 2^24 THEN <<2^23, e + 1>> ELSE <<m, e>>

\* The float nearest to N / D * 2^e, for N > 0 and D > 0.  (The one-element
\* sets bind the arguments as values, evaluated once.)
RECURSIVE RoundRatio(_, _, _)
RoundRatio(N0, D0, e0) ==
    CHOOSE f \in {IF N < D * 2^23 THEN RoundRatio(2 * N, D, e - 1)
                  ELSE IF N >= D * 2^24 THEN RoundRatio(N, 2 * D, e + 1)
                  ELSE RoundQuotient(N, D, e) : N \in {N0}, D \in {D0}, e \in {e0}} : TRUE

\* sum1 /= count (header line 49): sum is a whole number, exact as a float.
FloatDiv(sum, count) ==
    IF sum = 0 THEN FloatZero
    ELSE IF sum < 0 THEN LET f == RoundRatio(-sum, count, 0) IN <<-f[1], f[2]>>
    ELSE RoundRatio(sum, count, 0)

\* The float of a whole number n >= 0 below 2^24.
FloatOf(n) == IF n = 0 THEN FloatZero ELSE RoundRatio(n, 1, 0)

\* a <= b, for floats a, b >= 0.
FloatLeq(a, b) ==
    \/ a[1] = 0
    \/ b[1] # 0 /\ (a[2] < b[2] \/ (a[2] = b[2] /\ a[1] <= b[1]))

FloatMax(a, b) == IF FloatLeq(a, b) THEN b ELSE a
FloatMin(a, b) == IF FloatLeq(a, b) THEN a ELSE b

\* 0.5f * a: exact.
FloatHalf(a) == IF a[1] = 0 THEN a ELSE <<a[1], a[2] - 1>>

\* big + small rounded to float, for floats big >= small > 0: the smaller
\* operand is aligned with two guard bits and a sticky bit.
AddAligned(big, small) ==
    LET d == big[2] - small[2]
        s == IF d >= 27 THEN 0 ELSE (4 * small[1]) \div 2^d
        sticky == IF d >= 27 THEN TRUE ELSE (4 * small[1]) % 2^d # 0
        sum == 4 * big[1] + s
        k == IF sum < 2^26 THEN 2 ELSE 3
        q == sum \div 2^k
        r == sum % 2^k
        half == 2^(k - 1)
        m == IF r > half \/ (r = half /\ (sticky \/ q % 2 = 1)) THEN q + 1 ELSE q
        e == big[2] - 2 + k
    IN  IF m = 2^24 THEN <<2^23, e + 1>> ELSE <<m, e>>

\* a + b rounded to float, for floats a, b >= 0.
FloatAdd(a0, b0) ==
    CHOOSE f \in {IF a[1] = 0 THEN b
                  ELSE IF b[1] = 0 THEN a
                  ELSE IF FloatLeq(a, b) THEN AddAligned(b, a)
                  ELSE AddAligned(a, b) : a \in {a0}, b \in {b0}} : TRUE

\* The whole part of a * 2^k, for a float a >= 0 below 2^(31 - k).
FloatFloor(a, k) ==
    IF a[1] = 0 THEN 0
    ELSE IF a[2] + k >= 0 THEN a[1] * 2^(a[2] + k)
    ELSE IF -(a[2] + k) >= 31 THEN 0
    ELSE a[1] \div 2^(-(a[2] + k))

\* Conversion of a float a >= 0 to int: toward zero.
FloatToInt(a) == FloatFloor(a, 0)

RECURSIVE GCD(_, _)
GCD(a, b) == IF b = 0 THEN a ELSE GCD(b, a % b)

\* value * (outputMax - outputMin) / (inputMax - inputMin) for a float
\* value > 0, rounded to float.
Rescale(value, inputMin, inputMax, outputMin, outputMax) ==
    LET g == GCD(outputMax - outputMin, inputMax - inputMin)
    IN  RoundRatio(value[1] * ((outputMax - outputMin) \div g),
                   (inputMax - inputMin) \div g, value[2])

\* Variant: map_range without the clamp at outputMax.
map_range_no_upper_clamp(value, inputMin, inputMax, outputMin, outputMax) ==
    CHOOSE f \in {IF v[1] <= 0 THEN FloatZero
                  ELSE Rescale(v, inputMin, inputMax, outputMin, outputMax) :
                  v \in {value}} : TRUE

\* Variant: map_range that clamps the value without rescaling it.
map_range_clamp_only(value, inputMin, inputMax, outputMin, outputMax) ==
    CHOOSE f \in {IF v[1] <= 0 THEN FloatZero
                  ELSE FloatMin(FloatOf(outputMax), v) : v \in {value}} : TRUE

\* ------------------------------------------------------------- map_range
\* map_range(value, inputMin, inputMax, outputMin, outputMax) of a float
\* value, as both call sites use it: inputMin = outputMin = 0, for which the
\* subtraction and the addition are exact.  The code evaluates
\* value * (outputMax - outputMin) / (inputMax - inputMin) in double, clamps
\* and stores the result in a float; the product is exact in double and the
\* quotient's double rounding never moves the float it rounds to, so the
\* stored float is the one nearest to the exact quotient, clamped.
map_range(value, inputMin, inputMax, outputMin, outputMax) ==
    CHOOSE f \in {IF v[1] <= 0 THEN FloatZero
                  ELSE FloatMin(FloatOf(outputMax),
                                Rescale(v, inputMin, inputMax, outputMin, outputMax)) :
                  v \in {value}} : TRUE

\* link_score0 / link_score1 of one antenna, lines 94-95:
\* 0.5f * rssi + 0.5f * snr on the antenna's means rs / rden and ss / sden.
LinkScoreAntenna(rs, rden, ss, sden) ==
    LET r == map_range(FloatDiv(rs, rden), 0, 126, 0, 100)
        s == map_range(FloatDiv(ss, sden), 0, 60, 0, 100)
    IN  FloatAdd(FloatHalf(r), FloatHalf(s))

\* Variant: one blend of the best RSSI mean with the best SNR mean.
LinkScoreOfMaxima(ar, as) ==
    CHOOSE k \in {FloatToInt(l) :
                  l \in {LinkScoreAntenna(Max(ar.sum1, ar.sum2), Den(ar),
                                          Max(as.sum1, as.sum2), Den(as))}} : TRUE

\* ret.link_score = std::max(link_score0, link_score1), converted to int.
LinkScore(ar, as) ==
    CHOOSE k \in {FloatToInt(FloatMax(l0, l1)) :
                  l0 \in {LinkScoreAntenna(ar.sum1, Den(ar), as.sum1, Den(as))},
                  l1 \in {LinkScoreAntenna(ar.sum2, Den(ar), as.sum2, Den(as))}} : TRUE

\* Variant: the first antenna's mean reported, whatever the second one's.
MaxMeanFirstAntenna(avg) == TruncDiv(avg.sum1, Den(avg))

\* ret.rssi / ret.snr = std::max(avg.first, avg.second), converted to int.
MaxMean(avg) == TruncDiv(Max(avg.sum1, avg.sum2), Den(avg))

\* Variant: an empty FEC window reported as zero counters.
AccumulatedFecZeroWhenEmpty(fec) ==
    IF fec = <<>> THEN <<0, 0>>
    ELSE <<SumField(fec, "recovered"), SumField(fec, "lost")>>

\* ------------------------------------------------ get_accumulated_fec_data
\* On the FEC window as already cleaned: {p_recovered, p_lost}.  The uint32_t
\* accumulators wrap at 2^32, which the counters of FecInputs never reach.
AccumulatedFec(fec) ==
    IF fec = <<>> THEN <<EmptyFecSentinel, EmptyFecSentinel>>
    ELSE <<SumField(fec, "recovered"), SumField(fec, "lost")>>

NoEntry == [timestamp |-> 0, all |-> 0, recovered |-> 0, lost |-> 0]

NoRet == [lost_last_second |-> 0, recovered_last_second |-> 0, rssi |-> 0,
          snr |-> 0, link_score |-> 0, idr_code |-> <<>>]

NoCutoff == [ga_rssi |-> 0, ga_snr |-> 0, acc_fec |-> 0,
             rssi |-> 0, snr |-> 0, fec |-> 0]

Shared == [rssis |-> m_rssis, snrs |-> m_snrs, fec |-> m_fec_data, idr |-> m_idr_code]

\* ------------------------------------------------------------------ Init
Init ==
    /\ now = 0
    /\ m_rssis = <<>>
    /\ m_snrs = <<>>
    /\ m_fec_data = <<>>
    /\ m_idr_code = [i \in 1..IdrLength |-> "a"]
    /\ m_mutex = FreeMutex
    /\ pc = [t \in Threads |-> "idle"]
    /\ entry = NoEntry
    /\ ga_result = NoAverage
    /\ avg_rssi = NoAverage
    /\ avg_snr = NoAverage
    /\ ret = NoRet
    /\ cutoff = NoCutoff
    /\ committed = [rssis |-> <<>>, snrs |-> <<>>, fec |-> <<>>,
                    idr |-> [i \in 1..IdrLength |-> "a"]]
    /\ ops = 0

\* ----------------------------------------------------------------- clock
Tick ==
    /\ now < MaxTime
    /\ now' = now + 1
    /\ UNCHANGED <<shared, m_mutex, pc, entry, ga_result, locals, committed, ops>>

\* ------------------------------------------------------------- producers
\* A producer calls one of the three ingestion operations.  The arguments are
\* bound where the body first reads them: no other thread can see them before.
Call(p, op) ==
    /\ pc[p] = "idle"
    /\ ops < MaxOps
    /\ pc' = [pc EXCEPT ![p] = op]
    /\ ops' = ops + 1
    /\ UNCHANGED <<now, shared, m_mutex, entry, ga_result, locals, committed>>

\* The std::lock_guard at the top of an ingestion operation.
ProducerLock(p, at, next) ==
    /\ pc[p] = at
    /\ CanLock(p)
    /\ m_mutex' = Locked(p)
    /\ pc' = [pc EXCEPT ![p] = next]
    /\ UNCHANGED <<now, shared, entry, ga_result, locals, committed, ops>>

\* Variant: add_rssi limiting the values to the normalization domain.
add_rssi_clamped(p, ant1, ant2) ==
    /\ pc[p] = "add_rssi"
    /\ m_rssis' = Append(m_rssis, [timestamp |-> now, ant1 |-> Min(ant1, 126),
                                    ant2 |-> Min(ant2, 126)])
    /\ m_mutex' = Unlocked(p)
    /\ pc' = [pc EXCEPT ![p] = "idle"]
    /\ committed' = [committed EXCEPT !.rssis = m_rssis']
    /\ UNCHANGED <<now, m_snrs, m_fec_data, m_idr_code, entry, ga_result, locals, ops>>

\* add_rssi(ant1, ant2), lines 59-64: stamp, push_back, release.
add_rssi(p, ant1, ant2) ==
    /\ pc[p] = "add_rssi"
    /\ m_rssis' = Append(m_rssis, [timestamp |-> now, ant1 |-> ant1, ant2 |-> ant2])
    /\ m_mutex' = Unlocked(p)
    /\ pc' = [pc EXCEPT ![p] = "idle"]
    /\ committed' = [committed EXCEPT !.rssis = m_rssis']
    /\ UNCHANGED <<now, m_snrs, m_fec_data, m_idr_code, entry, ga_result, locals, ops>>

\* add_snr(ant1, ant2), lines 69-74.
add_snr(p, ant1, ant2) ==
    /\ pc[p] = "add_snr"
    /\ m_snrs' = Append(m_snrs, [timestamp |-> now, ant1 |-> ant1, ant2 |-> ant2])
    /\ m_mutex' = Unlocked(p)
    /\ pc' = [pc EXCEPT ![p] = "idle"]
    /\ committed' = [committed EXCEPT !.snrs = m_snrs']
    /\ UNCHANGED <<now, m_rssis, m_fec_data, m_idr_code, entry, ga_result, locals, ops>>

\* Variant: the code is regenerated on every FEC entry.
IdrAfterFecAlways(p_lost, idr) == generate_random_string(IdrLength)

\* The values m_idr_code may hold after add_fec_data's lines 155-157.
IdrAfterFec(p_lost, idr) ==
    IF p_lost > 0 THEN generate_random_string(IdrLength) ELSE {idr}

\* add_fec_data(p_all, p_recovered, p_lost), lines 149-157: fill the entry,
\* regenerate the code on loss.
add_fec_data_idr(p, p_all, p_recovered, p_lost) ==
    /\ pc[p] = "add_fec_idr"
    /\ entry' = [timestamp |-> now, all |-> p_all,
                 recovered |-> p_recovered, lost |-> p_lost]
    /\ m_idr_code' \in IdrAfterFec(p_lost, m_idr_code)
    /\ pc' = [pc EXCEPT ![p] = "add_fec_push"]
    /\ UNCHANGED <<now, m_rssis, m_snrs, m_fec_data, m_mutex, ga_result, locals, committed, ops>>

\* add_fec_data, lines 159-160: push_back, release.
add_fec_data_push(p) ==
    /\ pc[p] = "add_fec_push"
    /\ m_fec_data' = Append(m_fec_data, entry)
    /\ m_mutex' = Unlocked(p)
    /\ pc' = [pc EXCEPT ![p] = "idle"]
    /\ entry' = NoEntry
    /\ committed' = [committed EXCEPT !.fec = m_fec_data', !.idr = m_idr_code]
    /\ UNCHANGED <<now, m_rssis, m_snrs, m_idr_code, ga_result, locals, ops>>

\* The arrays a caller of the public get_average passes: its own, never a
\* member of the calculator.
GetAverageInputs ==
    {<<>>, <<[ant1 |-> 5, ant2 |-> 7], [ant1 |-> 9, ant2 |-> 11]>>}

\* get_average(array) called from outside, header lines 37-52: under the
\* lock, cleanup_old_rssi_data and the means of the caller's array.
get_average(p, array) ==
    /\ pc[p] = "get_average"
    /\ m_rssis' = cleanup_old_rssi_data
    /\ ga_result' = Average(array)
    /\ pc' = [pc EXCEPT ![p] = "get_average_ret"]
    /\ UNCHANGED <<now, m_snrs, m_fec_data, m_idr_code, m_mutex, entry, locals,
                   committed, ops>>

\* Its return: the guard releases the mutex.
get_average_return(p) ==
    /\ pc[p] = "get_average_ret"
    /\ m_mutex' = Unlocked(p)
    /\ ga_result' = NoAverage
    /\ pc' = [pc EXCEPT ![p] = "idle"]
    /\ committed' = [committed EXCEPT !.rssis = m_rssis]
    /\ UNCHANGED <<now, shared, entry, locals, ops>>

ProducerStep(p) ==
    \/ Call(p, "add_rssi_lock")
    \/ Call(p, "add_snr_lock")
    \/ Call(p, "add_fec_lock")
    \/ Call(p, "get_average_lock")
    \/ ProducerLock(p, "add_rssi_lock", "add_rssi")
    \/ ProducerLock(p, "add_snr_lock", "add_snr")
    \/ ProducerLock(p, "add_fec_lock", "add_fec_idr")
    \/ ProducerLock(p, "get_average_lock", "get_average")
    \/ \E a \in RssiInputs : add_rssi(p, a[1], a[2])
    \/ \E a \in SnrInputs : add_snr(p, a[1], a[2])
    \/ \E a \in FecInputs : add_fec_data_idr(p, a[1], a[2], a[3])
    \/ add_fec_data_push(p)
    \/ \E array \in GetAverageInputs : get_average(p, array)
    \/ get_average_return(p)

\* -------------------------------------------------------------- consumer
\* The consumer calls calculate_signal_quality.
csq_call ==
    /\ pc[Consumer] = "idle"
    /\ pc' = [pc EXCEPT ![Consumer] = "csq_lock"]
    /\ UNCHANGED <<now, shared, m_mutex, entry, ga_result, locals, committed, ops>>

\* A std::lock_guard taken by the consumer (line 79, and get_average's line 34).
ConsumerLock(at, next) ==
    /\ pc[Consumer] = at
    /\ CanLock(Consumer)
    /\ m_mutex' = Locked(Consumer)
    /\ pc' = [pc EXCEPT ![Consumer] = next]
    /\ UNCHANGED <<now, shared, entry, ga_result, locals, committed, ops>>

\* get_average(m_rssis), header lines 37-52: cleanup_old_rssi_data, the sums,
\* the guard's release.
get_average_rssis ==
    /\ pc[Consumer] = "ga_rssi"
    /\ m_rssis' = cleanup_old_rssi_data
    /\ avg_rssi' = Average(m_rssis')
    /\ cutoff' = [cutoff EXCEPT !.ga_rssi = Cutoff]
    /\ m_mutex' = Unlocked(Consumer)
    /\ pc' = [pc EXCEPT ![Consumer] = "ga_snr_lock"]
    /\ UNCHANGED <<now, m_snrs, m_fec_data, m_idr_code, entry, ga_result, avg_snr, ret, committed, ops>>

\* get_average(m_snrs): the same body, which cleans the RSSI window.
get_average_snrs ==
    /\ pc[Consumer] = "ga_snr"
    /\ m_rssis' = cleanup_old_rssi_data
    /\ avg_snr' = Average(m_snrs)
    /\ cutoff' = [cutoff EXCEPT !.ga_snr = Cutoff]
    /\ m_mutex' = Unlocked(Consumer)
    /\ pc' = [pc EXCEPT ![Consumer] = "csq_compute"]
    /\ UNCHANGED <<now, m_snrs, m_fec_data, m_idr_code, entry, ga_result, avg_rssi, ret, committed, ops>>

\* calculate_signal_quality, lines 85-108: the scores, get_accumulated_fec_data
\* (which cleans the FEC window first), the fields of ret.
csq_compute ==
    /\ pc[Consumer] = "csq_compute"
    /\ m_fec_data' = cleanup_old_fec_data
    /\ cutoff' = [cutoff EXCEPT !.acc_fec = Cutoff]
    /\ ret' = [lost_last_second |-> AccumulatedFec(m_fec_data')[2],
               recovered_last_second |-> AccumulatedFec(m_fec_data')[1],
               rssi |-> MaxMean(avg_rssi),
               snr |-> MaxMean(avg_snr),
               link_score |-> LinkScore(avg_rssi, avg_snr),
               idr_code |-> m_idr_code]
    /\ pc' = [pc EXCEPT ![Consumer] = "csq_cleanup_rssi"]
    /\ UNCHANGED <<now, m_rssis, m_snrs, m_idr_code, m_mutex, entry, ga_result, avg_rssi, avg_snr,
                   committed, ops>>

\* Line 110.
csq_cleanup_rssi ==
    /\ pc[Consumer] = "csq_cleanup_rssi"
    /\ m_rssis' = cleanup_old_rssi_data
    /\ cutoff' = [cutoff EXCEPT !.rssi = Cutoff]
    /\ pc' = [pc EXCEPT ![Consumer] = "csq_cleanup_snr"]
    /\ UNCHANGED <<now, m_snrs, m_fec_data, m_idr_code, m_mutex, entry, ga_result, avg_rssi, avg_snr,
                   ret, committed, ops>>

\* Line 111.
csq_cleanup_snr ==
    /\ pc[Consumer] = "csq_cleanup_snr"
    /\ m_snrs' = cleanup_old_snr_data
    /\ cutoff' = [cutoff EXCEPT !.snr = Cutoff]
    /\ pc' = [pc EXCEPT ![Consumer] = "csq_cleanup_fec"]
    /\ UNCHANGED <<now, m_rssis, m_fec_data, m_idr_code, m_mutex, entry, ga_result, avg_rssi, avg_snr,
                   ret, committed, ops>>

\* Line 112.
csq_cleanup_fec ==
    /\ pc[Consumer] = "csq_cleanup_fec"
    /\ m_fec_data' = cleanup_old_fec_data
    /\ cutoff' = [cutoff EXCEPT !.fec = Cutoff]
    /\ pc' = [pc EXCEPT ![Consumer] = "csq_ret"]
    /\ UNCHANGED <<now, m_rssis, m_snrs, m_idr_code, m_mutex, entry, ga_result, avg_rssi, avg_snr,
                   ret, committed, ops>>

\* Lines 122-123: ret goes to the caller, the guard releases the mutex.
csq_return ==
    /\ pc[Consumer] = "csq_ret"
    /\ m_mutex' = Unlocked(Consumer)
    /\ pc' = [pc EXCEPT ![Consumer] = "idle"]
    /\ avg_rssi' = NoAverage
    /\ avg_snr' = NoAverage
    /\ ret' = NoRet
    /\ cutoff' = NoCutoff
    /\ committed' = Shared
    /\ UNCHANGED <<now, shared, entry, ga_result, ops>>

ConsumerStep ==
    \/ csq_call
    \/ ConsumerLock("csq_lock", "ga_rssi_lock")
    \/ ConsumerLock("ga_rssi_lock", "ga_rssi")
    \/ get_average_rssis
    \/ ConsumerLock("ga_snr_lock", "ga_snr")
    \/ get_average_snrs
    \/ csq_compute
    \/ csq_cleanup_rssi
    \/ csq_cleanup_snr
    \/ csq_cleanup_fec
    \/ csq_return

Next ==
    \/ Tick
    \/ \E p \in Producers : ProducerStep(p)
    \/ ConsumerStep

Spec == Init /\ [][Next]_vars

\* Only the producers run: calculate_signal_quality is never called.
NextIngest ==
    \/ Tick
    \/ \E p \in Producers : ProducerStep(p)

IngestSpec == Init /\ [][NextIngest]_vars

\* A thread's steps inside an operation it has started.
ProducerRun(p) ==
    \/ ProducerLock(p, "add_rssi_lock", "add_rssi")
    \/ ProducerLock(p, "add_snr_lock", "add_snr")
    \/ ProducerLock(p, "add_fec_lock", "add_fec_idr")
    \/ ProducerLock(p, "get_average_lock", "get_average")
    \/ \E a \in RssiInputs : add_rssi(p, a[1], a[2])
    \/ \E a \in SnrInputs : add_snr(p, a[1], a[2])
    \/ \E a \in FecInputs : add_fec_data_idr(p, a[1], a[2], a[3])
    \/ add_fec_data_push(p)
    \/ \E array \in GetAverageInputs : get_average(p, array)
    \/ get_average_return(p)

ConsumerRun ==
    \/ ConsumerLock("csq_lock", "ga_rssi_lock")
    \/ ConsumerLock("ga_rssi_lock", "ga_rssi")
    \/ get_average_rssis
    \/ ConsumerLock("ga_snr_lock", "ga_snr")
    \/ get_average_snrs
    \/ csq_compute
    \/ csq_cleanup_rssi
    \/ csq_cleanup_snr
    \/ csq_cleanup_fec
    \/ csq_return

\* The threads alone, the clock standing still: taking and releasing the
\* mutex reads no timestamp.
NextThreads ==
    \/ \E p \in Producers : ProducerStep(p)
    \/ ConsumerStep

\* Fair scheduling: a thread that can run again and again does run, so a
\* thread waiting for the mutex is not passed over forever.
FairSpec ==
    /\ Init
    /\ [][NextThreads]_vars
    /\ \A p \in Producers : SF_vars(ProducerRun(p))
    /\ SF_vars(ConsumerRun)

\* ------------------------------------------- the arithmetic of a snapshot
\* Inputs for the means, the normalization and the score: the ends of the
\* uint8_t and int8_t ranges, the ends of the mapped domains, values between.
CalcRssiInputs == {<<0, 126>>, <<40, 90>>, <<200, 10>>, <<255, 255>>}
CalcSnrInputs == {<<0, 60>>, <<30, -6>>, <<127, 20>>, <<-128, -128>>}

SeqsUpTo(S, n) == UNION {[1..k -> S] : k \in 0..n}

Sorted(window) ==
    \A i, j \in 1..Len(window) : i <= j => window[i].timestamp <= window[j].timestamp

\* RSSI windows as add_rssi leaves them, every sample stamped at the present.
CalcRssiWindows ==
    SeqsUpTo({[timestamp |-> MaxTime, ant1 |-> a[1], ant2 |-> a[2]] : a \in CalcRssiInputs},
             MaxSamples)

\* add_snr arguments of the long windows: means such as 42 / 5, which no
\* float holds exactly.
LongSnrInputs == {<<8, -128>>, <<9, -128>>}

\* Long SNR windows, all samples stamped at the present.
LongSnrWindows ==
    [1..MaxLongSamples -> {[timestamp |-> MaxTime, ant1 |-> a[1], ant2 |-> a[2]] :
                              a \in LongSnrInputs}]

\* SNR windows as add_snr leaves them: short ones with samples stamped at 0
\* or at the present, and the long ones.
CalcSnrWindows ==
    {w \in SeqsUpTo({[timestamp |-> t, ant1 |-> a[1], ant2 |-> a[2]] :
                        t \in {0, MaxTime}, a \in CalcSnrInputs}, MaxSamples) : Sorted(w)}
        \cup LongSnrWindows

\* FEC windows as add_fec_data leaves them: empty, or one sample.
CalcFecWindows ==
    {<<>>} \cup {<<[timestamp |-> MaxTime, all |-> f[1], recovered |-> f[2], lost |-> f[3]]>> :
                    f \in FecInputs}

\* The ingestion is over, the clock stands at MaxTime, and only the consumer
\* runs: calculate_signal_quality on the windows the producers left.
InitCalc ==
    /\ now = MaxTime
    /\ m_rssis \in CalcRssiWindows
    /\ m_snrs \in CalcSnrWindows
    /\ m_fec_data \in CalcFecWindows
    /\ m_idr_code = [i \in 1..IdrLength |-> "a"]
    /\ m_mutex = FreeMutex
    /\ pc = [t \in Threads |-> "idle"]
    /\ entry = NoEntry
    /\ ga_result = NoAverage
    /\ avg_rssi = NoAverage
    /\ avg_snr = NoAverage
    /\ ret = NoRet
    /\ cutoff = NoCutoff
    /\ committed = Shared
    /\ ops = 0

CalcSpec == InitCalc /\ [][ConsumerStep]_vars

\* ================================================================ claims
\* The samples of a window that are not older than the cutoff.
Fresh(window, cut) == SelectSeq(window, LAMBDA x : x.timestamp >= cut)

\* The consumer is at the return of calculate_signal_quality, mutex still held.
AtReturn == pc[Consumer] = "csq_ret"

HasStale(window, cut) == \E i \in 1..Len(window) : window[i].timestamp < cut

\* What calculate_signal_quality returns when it runs alone on the shared
\* state st, its cleanups having computed the cutoffs cuts.
SnapshotAlone(st, cuts) ==
    LET ar == Average(Fresh(st.rssis, cuts.ga_rssi))
        as == Average(st.snrs)
        fec == Fresh(st.fec, cuts.acc_fec)
    IN  [lost_last_second |-> IF fec = <<>> THEN 300 ELSE SumField(fec, "lost"),
         recovered_last_second |-> IF fec = <<>> THEN 300 ELSE SumField(fec, "recovered"),
         rssi |-> MaxMean(ar),
         snr |-> MaxMean(as),
         link_score |-> LinkScore(ar, as),
         idr_code |-> st.idr]

\* C1: an RSSI sample older than the cutoff the snapshot computes never
\* contributes: the returned rssi and link_score are those of the RSSI samples
\* not older than the cutoff, and rssi is 0 when every RSSI sample has expired.
C1_StaleRssiNeverContributes ==
    AtReturn =>
        LET fresh == Fresh(committed.rssis, cutoff.ga_rssi)
        IN  /\ ret.rssi = MaxMean(Average(fresh))
            /\ ret.link_score = LinkScore(Average(fresh), avg_snr)
            /\ (fresh = <<>> => ret.rssi = 0)

\* C1 witness: a snapshot returns rssi 0 over a window that held only an
\* expired sample.
C1_Witness ==
    /\ AtReturn
    /\ committed.rssis # <<>>
    /\ Fresh(committed.rssis, cutoff.ga_rssi) = <<>>
    /\ ret.rssi = 0

\* C2 (as claimed): the SNR mean of a snapshot includes at most one SNR sample
\* older than the cutoff computed when the mean is taken.
C2_AtMostOneStaleSnr ==
    AtReturn => avg_snr.count - Len(Fresh(committed.snrs, cutoff.ga_snr)) <= 1

\* C3: when some FEC sample is within the window, the returned counters are
\* the sums over exactly the FEC samples not older than the cutoff.
C3_FecZeroStale ==
    (AtReturn /\ Fresh(committed.fec, cutoff.acc_fec) # <<>>) =>
        /\ ret.recovered_last_second =
              SumField(Fresh(committed.fec, cutoff.acc_fec), "recovered")
        /\ ret.lost_last_second =
              SumField(Fresh(committed.fec, cutoff.acc_fec), "lost")

\* C3 witness: a snapshot over an FEC window holding one expired sample and
\* two samples within the window.
C3_Witness ==
    /\ AtReturn
    /\ HasStale(committed.fec, cutoff.acc_fec)
    /\ Len(Fresh(committed.fec, cutoff.acc_fec)) >= 2
    /\ ret.lost_last_second > 0

\* C4: when no FEC sample is within the window, the snapshot returns
\* recovered = 300 and lost = 300.
C4_EmptyFecSentinel ==
    (AtReturn /\ Fresh(committed.fec, cutoff.acc_fec) = <<>>) =>
        /\ ret.recovered_last_second = 300
        /\ ret.lost_last_second = 300

\* C4 witness: every recorded FEC sample has expired when the snapshot sums.
C4_Witness ==
    /\ AtReturn
    /\ committed.fec # <<>>
    /\ Fresh(committed.fec, cutoff.acc_fec) = <<>>
    /\ ret.lost_last_second = 300

\* Within one window no sample is older than the window duration as of the
\* latest sample ingested into it.
WithinDurationOfLatest(window) ==
    \A i \in 1..Len(window) :
        window[i].timestamp >= window[Len(window)].timestamp - kAveragingWindow

\* C5 (as claimed): with calculate_signal_quality never called, after every
\* ingestion each window holds no sample older than the window duration as of
\* the latest ingestion into it.
C5_IngestionPrunes ==
    /\ WithinDurationOfLatest(m_rssis)
    /\ WithinDurationOfLatest(m_snrs)
    /\ WithinDurationOfLatest(m_fec_data)

\* C6 (as claimed): every add_fec_data call with lost > 0 leaves an IDR code
\* different from the one before the call.
C6_LossAlwaysChangesIdr ==
    [][\A p \in Producers :
          (pc[p] = "add_fec_idr" /\ pc'[p] = "add_fec_push" /\ entry'.lost > 0)
              => m_idr_code' # m_idr_code]_vars

\* C7: the IDR code changes only in a step of add_fec_data whose lost is
\* positive; every other step, the snapshot's cleanups included, keeps it, and
\* a snapshot returns the code as it stands.
C7_IdrChangesOnlyOnLoss ==
    /\ [][m_idr_code' # m_idr_code =>
            \E p \in Producers :
                pc[p] = "add_fec_idr" /\ pc'[p] = "add_fec_push" /\ entry'.lost > 0]_vars
    /\ [](AtReturn => ret.idr_code = m_idr_code)

\* C7 witness: a snapshot has pruned the lossy FEC sample that rotated the
\* code, and returns the rotated code, which is still the current one.
C7_Witness ==
    /\ AtReturn
    /\ \E i \in 1..Len(committed.fec) : committed.fec[i].lost > 0
    /\ m_fec_data = <<>>
    /\ m_idr_code # [i \in 1..IdrLength |-> "a"]
    /\ ret.idr_code = m_idr_code

\* The consumer holds the mutex inside calculate_signal_quality.
ConsumerInside ==
    pc[Consumer] \in {"ga_rssi_lock", "ga_rssi", "ga_snr_lock", "ga_snr", "csq_compute",
                      "csq_cleanup_rssi", "csq_cleanup_snr", "csq_cleanup_fec", "csq_ret"}

\* C8: a snapshot is atomic with respect to ingestion: while it runs the
\* shared state is changed by nobody else, and its result is the one of
\* running alone on the state left by the operations completed before it, so
\* the code and the FEC window it reports belong to the same state.
C8_SnapshotAtomic ==
    /\ ConsumerInside =>
          /\ m_idr_code = committed.idr
          /\ \A p \in Producers :
                pc[p] \notin {"add_rssi", "add_snr", "add_fec_idr", "add_fec_push",
                              "get_average", "get_average_ret"}
    /\ (ConsumerInside /\ pc[Consumer] \notin {"csq_cleanup_fec", "csq_ret"}) =>
          m_snrs = committed.snrs
    /\ AtReturn => ret = SnapshotAlone(committed, cutoff)

\* C8 witness: a snapshot returns a lossy FEC sample together with the rotated
\* code while a producer's add_fec_data waits for the mutex.
C8_Witness ==
    /\ AtReturn
    /\ \E p \in Producers : pc[p] = "add_fec_lock"
    /\ ret.lost_last_second \notin {0, 300}
    /\ ret.idr_code # [i \in 1..IdrLength |-> "a"]

\* Some thread inside an operation can take a step.
Progress == (\E p \in Producers : ProducerRun(p)) \/ ConsumerRun

NoDeadlock == (\E t \in Threads : pc[t] # "idle") => ENABLED Progress

\* C9: no reachable state is a deadlock, the consumer is never blocked by the
\* mutex it holds, and under fair scheduling every started operation returns.
C9_NoDeadlockAndReturn ==
    /\ [](NoDeadlock /\ (pc[Consumer] \in {"ga_rssi_lock", "ga_snr_lock"} => CanLock(Consumer)))
    /\ \A t \in Threads : (pc[t] # "idle") ~> (pc[t] = "idle")

\* C9 witness: the consumer holds the mutex twice, inside get_average, while
\* both producers wait for it.
C9_Witness ==
    /\ pc[Consumer] = "ga_rssi"
    /\ m_mutex = [owner |-> Consumer, count |-> 2]
    /\ \A p \in Producers : pc[p] \in {"add_rssi_lock", "add_snr_lock", "add_fec_lock"}

\* C10: when calculate_signal_quality returns, each window is exactly the
\* samples it held on entry that are not older than the cutoff of its last
\* cleanup, the sample stamped exactly at the cutoff included.
C10_PruningPostcondition ==
    AtReturn =>
        /\ m_rssis = Fresh(committed.rssis, cutoff.rssi)
        /\ m_snrs = Fresh(committed.snrs, cutoff.snr)
        /\ m_fec_data = Fresh(committed.fec, cutoff.fec)

\* C10 witness: a snapshot removed an expired RSSI sample and kept the one
\* stamped exactly at the cutoff, and emptied the FEC window of an expired one.
C10_Witness ==
    /\ AtReturn
    /\ HasStale(committed.rssis, cutoff.rssi)
    /\ \E i \in 1..Len(m_rssis) : m_rssis[i].timestamp = cutoff.rssi
    /\ HasStale(committed.fec, cutoff.fec)
    /\ m_fec_data = <<>>

\* The RSSI window on entry is not empty and every sample of it is within the
\* window when get_average computes the cutoff.
RssiAllFresh ==
    /\ committed.rssis # <<>>
    /\ Fresh(committed.rssis, cutoff.ga_rssi) = committed.rssis

\* The larger of the two per-antenna sums of the RSSI window on entry.
MaxRssiSum == Max(SumField(committed.rssis, "ant1"), SumField(committed.rssis, "ant2"))

\* C11 (as claimed): over RSSI samples all within the window, the returned
\* rssi equals max(mean(ant1), mean(ant2)) exactly.
C11_RssiExactMax ==
    (AtReturn /\ RssiAllFresh) => ret.rssi * Len(committed.rssis) = MaxRssiSum

\* C11 (amended): over RSSI samples all within the window, the returned rssi
\* is max(mean(ant1), mean(ant2)) with its fraction dropped: the int field
\* holds the integer part of the larger mean.
C11_RssiTruncatedMax ==
    (AtReturn /\ RssiAllFresh) =>
        /\ ret.rssi * Len(committed.rssis) <= MaxRssiSum
        /\ MaxRssiSum < (ret.rssi + 1) * Len(committed.rssis)

\* C11 witness: a snapshot over two RSSI samples within the window whose
\* larger mean is not a whole number.
C11_Witness ==
    /\ AtReturn
    /\ RssiAllFresh
    /\ Len(committed.rssis) = 2
    /\ MaxRssiSum % 2 = 1
    /\ ret.rssi > 0

\* C12: in every snapshot the returned link_score lies in [0, 100], for
\* RSSI values over the whole of 0..255 and SNR values over -128..127.
C12_LinkScoreInRange ==
    AtReturn => (0 <= ret.link_score /\ ret.link_score <= 100)

\* C12 witness: a snapshot over an RSSI sample above 126 and an SNR sample
\* above 60, scored 100.
C12_Witness ==
    /\ AtReturn
    /\ \E i \in 1..Len(committed.rssis) : committed.rssis[i].ant1 > 126
    /\ \E i \in 1..Len(committed.snrs) : committed.snrs[i].ant1 > 60
    /\ ret.link_score = 100

\* The normalized value of the mean num/den over the domain 0..inputMax is
\* exactly 0 at and below 0, exactly 100 at and above inputMax, and
\* 100 * mean / inputMax in between, to within float rounding (here: its
\* multiple by 1024 is less than 2 away).
NormalizedAsClaimed(num, den, inputMax) ==
    LET r == map_range(FloatDiv(num, den), 0, inputMax, 0, 100)
        x == FloatFloor(r, 10)
    IN  /\ num <= 0 => r = <<0, 0>>
        /\ num >= inputMax * den => r = <<100 * 2^17, -17>>
        /\ (0 < num /\ num < inputMax * den) =>
               /\ (x - 1) * inputMax * den < 100 * num * 1024
               /\ 100 * num * 1024 < (x + 2) * inputMax * den

\* The means get_average has returned are mapped at this point.
AtCompute == pc[Consumer] = "csq_compute"

\* C13: the normalization sends RSSI mean 0 to 0 and 126 to 100, SNR mean 0
\* to 0 and 60 to 100, is linear in between and clamps means outside the
\* domain to 0 or 100.
C13_NormalizationBoundaries ==
    AtCompute =>
        /\ NormalizedAsClaimed(avg_rssi.sum1, Den(avg_rssi), 126)
        /\ NormalizedAsClaimed(avg_rssi.sum2, Den(avg_rssi), 126)
        /\ NormalizedAsClaimed(avg_snr.sum1, Den(avg_snr), 60)
        /\ NormalizedAsClaimed(avg_snr.sum2, Den(avg_snr), 60)

\* C13 witness: the means to map are RSSI 0 and 126 and SNR -128 on both
\* antennas: the two RSSI boundaries and an SNR mean below the domain.
C13_Witness ==
    /\ AtCompute
    /\ avg_rssi = [sum1 |-> 0, sum2 |-> 126, count |-> 1]
    /\ avg_snr = [sum1 |-> -128, sum2 |-> -128, count |-> 1]

\* Both metric windows are empty when the snapshot starts.
BothWindowsEmpty == committed.rssis = <<>> /\ committed.snrs = <<>>

\* C14: a snapshot over an empty RSSI window and an empty SNR window returns
\* rssi = 0, snr = 0 and link_score = 0.
C14_EmptyWindowsFallback ==
    (AtReturn /\ BothWindowsEmpty) =>
        (ret.rssi = 0 /\ ret.snr = 0 /\ ret.link_score = 0)

\* C14 witness: a snapshot returned over empty RSSI and SNR windows, both
\* sample counts being zero.
C14_Witness ==
    /\ AtReturn
    /\ BothWindowsEmpty
    /\ avg_rssi.count = 0
    /\ avg_snr.count = 0
    /\ ret.link_score = 0

\* value limited to lo..hi.
Clamp(value, lo, hi) == Max(lo, Min(hi, value))

\* k is the fraction num/den (den > 0) with its fractional part dropped.
IsIntegerPart(k, num, den) ==
    IF num >= 0 THEN k * den <= num /\ num < (k + 1) * den
    ELSE (k - 1) * den < num /\ num <= k * den

\* k is the whole part of a value at most 1/1000 away from num/den: the
\* float the code truncates is that close to the exact blend.
IsIntegerPartOfFloat(k, num, den) ==
    /\ k * den * 1000 <= num * 1000 + den
    /\ num * 1000 - den < (k + 1) * den * 1000

\* 0.5 * normalized RSSI mean + 0.5 * normalized SNR mean of one antenna,
\* that is 25 * rsum / (63 * rd) and 5 * ssum / (6 * sd), each limited to
\* 0..50, as the numerator of a fraction over 126 * rd * sd.
AntennaScoreNum(rsum, rd, ssum, sd) ==
    Clamp(50 * rsum * sd, 0, 50 * 126 * rd * sd)
        + Clamp(105 * ssum * rd, 0, 50 * 126 * rd * sd)

\* C15: link_score is the larger of the two antennas' blends, each blend made
\* of that antenna's own normalized RSSI and SNR means; rssi and snr are each
\* the larger raw mean of their metric, whichever antenna it comes from (all
\* three as stored in the int fields, the blend as the float computes it).
C15_PerAntennaBlend ==
    AtReturn =>
        LET rd == Den(avg_rssi)
            sd == Den(avg_snr)
            score0 == AntennaScoreNum(avg_rssi.sum1, rd, avg_snr.sum1, sd)
            score1 == AntennaScoreNum(avg_rssi.sum2, rd, avg_snr.sum2, sd)
        IN  /\ IsIntegerPartOfFloat(ret.link_score, Max(score0, score1), 126 * rd * sd)
            /\ IsIntegerPart(ret.rssi, Max(avg_rssi.sum1, avg_rssi.sum2), rd)
            /\ IsIntegerPart(ret.snr, Max(avg_snr.sum1, avg_snr.sum2), sd)

\* C15 witness: RSSI (40, 90) and SNR (30, -6): rssi comes from the second
\* antenna, snr and link_score from the first.
C15_Witness ==
    /\ AtReturn
    /\ avg_rssi = [sum1 |-> 40, sum2 |-> 90, count |-> 1]
    /\ avg_snr = [sum1 |-> 30, sum2 |-> -6, count |-> 1]
    /\ ret.rssi = 90
    /\ ret.snr = 30
    /\ ret.link_score = 40

\* suffix is what is left of window after dropping some of its oldest entries.
IsSuffix(suffix, window) ==
    \E k \in 0..Len(window) : suffix = SubSeq(window, k + 1, Len(window))

\* One step takes a window to itself, to a suffix of itself, or to itself
\* with one entry appended, stamped under the lock and so no later than now.
SuffixOrAppend(window, next) ==
    \/ IsSuffix(next, window)
    \/ /\ Len(next) = Len(window) + 1
       /\ SubSeq(next, 1, Len(window)) = window
       /\ next[Len(next)].timestamp <= now

\* C16: under any interleaving each window is a contiguous suffix of the
\* samples ingested into it, in arrival order with non-decreasing
\* timestamps: every step either appends the newest sample at the end or
\* drops oldest entries only, never reordering.
C16_WindowIsSuffixInOrder ==
    /\ [](Sorted(m_rssis) /\ Sorted(m_snrs) /\ Sorted(m_fec_data))
    /\ [][/\ SuffixOrAppend(m_rssis, m_rssis')
          /\ SuffixOrAppend(m_snrs, m_snrs')
          /\ SuffixOrAppend(m_fec_data, m_fec_data')]_vars

\* C16 witness: the snapshot has pruned the older of two RSSI samples with
\* different stamps and kept the newer one.
C16_Witness ==
    /\ ConsumerInside
    /\ Len(committed.rssis) = 2
    /\ committed.rssis[1].timestamp < committed.rssis[2].timestamp
    /\ m_rssis = <<committed.rssis[2]>>

Lowercase == {"a", "b", "c", "d", "e", "f", "g", "h", "i", "j", "k", "l", "m",
              "n", "o", "p", "q", "r", "s", "t", "u", "v", "w", "x", "y", "z"}

\* C17: the session identifier is always a string of exactly 4 lowercase
\* letters, and one add_fec_data call regenerates it at most once: it changes
\* only in the call's regeneration step, and not again before the call
\* returns.
C17_IdrShapeAndSingleRegeneration ==
    /\ [](/\ Len(m_idr_code) = 4
          /\ \A i \in 1..Len(m_idr_code) : m_idr_code[i] \in Lowercase)
    /\ [][/\ m_idr_code' # m_idr_code =>
                \E p \in Producers : pc[p] = "add_fec_idr" /\ pc'[p] = "add_fec_push"
          /\ (\E p \in Producers : pc[p] = "add_fec_push") =>
                m_idr_code' = m_idr_code]_vars

\* C17 witness: an add_fec_data call with lost = 3 has regenerated the code
\* to "bzah" and has not returned yet.
C17_Witness ==
    /\ \E p \in Producers : pc[p] = "add_fec_push"
    /\ entry.lost = 3
    /\ m_idr_code = <<"b", "z", "a", "h">>
    /\ committed.idr = <<"a", "a", "a", "a">>

\* Thread t is inside the critical section of an operation.
Inside(t) ==
    IF t = Consumer THEN ConsumerInside
    ELSE pc[t] \in {"add_rssi", "add_snr", "add_fec_idr", "add_fec_push",
                    "get_average", "get_average_ret"}

\* The lock guards alive in thread t: two inside get_average, called from
\* calculate_signal_quality; one elsewhere in a critical section.
Guards(t) ==
    IF ~Inside(t) THEN 0
    ELSE IF pc[t] \in {"ga_rssi", "ga_snr"} THEN 2
    ELSE 1

\* C18: at most one thread is inside a critical section; a thread inside
\* one, sub-steps of the snapshot included, owns the lock with one hold per
\* live guard; the hold count is zero when nobody is inside an operation;
\* and the windows and the identifier are written only by a thread inside
\* its critical section.
C18_MutualExclusion ==
    /\ [](/\ \A t1, t2 \in Threads : (Inside(t1) /\ Inside(t2)) => t1 = t2
          /\ \A t \in Threads :
                Inside(t) => (m_mutex.owner = t /\ m_mutex.count = Guards(t))
          /\ (\A t \in Threads : ~Inside(t)) => m_mutex = [owner |-> NoThread, count |-> 0])
    /\ [][shared' # shared =>
             \E t \in Threads : Inside(t) /\ m_mutex.owner = t /\ pc'[t] # pc[t]]_vars

\* C18 witness: the consumer is inside get_average holding the lock twice
\* while both producers wait for it.
C18_Witness ==
    /\ pc[Consumer] = "ga_rssi"
    /\ m_mutex = [owner |-> Consumer, count |-> 2]
    /\ pc["p1"] = "add_rssi_lock"
    /\ pc["p2"] = "add_fec_lock"

\* Producer p completes the step from pc value from to pc value to.
Steps(p, from, to) == pc[p] = from /\ pc'[p] = to

\* C19: add_rssi(a, b) appends exactly the sample (now, a, b), values as
\* given also outside [0, 126], to the RSSI window and nothing else changes;
\* add_snr likewise on the SNR window only; add_fec_data changes only the FEC
\* window, by one sample as given, and the session identifier only when
\* lost > 0.
C19_IngestionFrame ==
    [][\A p \in Producers :
          /\ Steps(p, "add_rssi", "idle") =>
                /\ \E a \in RssiInputs :
                      m_rssis' = m_rssis \o <<[timestamp |-> now, ant1 |-> a[1], ant2 |-> a[2]]>>
                /\ UNCHANGED <<m_snrs, m_fec_data, m_idr_code>>
          /\ Steps(p, "add_snr", "idle") =>
                /\ \E a \in SnrInputs :
                      m_snrs' = m_snrs \o <<[timestamp |-> now, ant1 |-> a[1], ant2 |-> a[2]]>>
                /\ UNCHANGED <<m_rssis, m_fec_data, m_idr_code>>
          /\ Steps(p, "add_fec_idr", "add_fec_push") =>
                /\ \E f \in FecInputs :
                      /\ entry' = [timestamp |-> now, all |-> f[1],
                                   recovered |-> f[2], lost |-> f[3]]
                      /\ f[3] = 0 => m_idr_code' = m_idr_code
                /\ UNCHANGED <<m_rssis, m_snrs, m_fec_data>>
          /\ Steps(p, "add_fec_push", "idle") =>
                /\ m_fec_data' = m_fec_data \o <<entry>>
                /\ UNCHANGED <<m_rssis, m_snrs, m_idr_code>>
          /\ (pc[p] \in {"idle", "add_rssi_lock", "add_snr_lock", "add_fec_lock",
                         "get_average_lock"}
                /\ pc'[p] # pc[p]) => UNCHANGED shared]_vars

\* C19 witness: add_rssi(200, 10) has returned: the sample is stored with its
\* value 200 above 126, the other windows and the identifier are as
\* constructed.
C19_Witness ==
    /\ \A p \in Producers : pc[p] = "idle"
    /\ m_rssis = <<[timestamp |-> now, ant1 |-> 200, ant2 |-> 10]>>
    /\ m_snrs = <<>>
    /\ m_fec_data = <<>>
    /\ m_idr_code = <<"a", "a", "a", "a">>

\* C20 (as claimed): two consecutive snapshots with no ingestion and no clock
\* advance between them return identical results: the result being returned
\* is the one a snapshot of the state this one leaves, at the same clock
\* reading, returns.
C20_SnapshotIdempotent ==
    AtReturn => ret = SnapshotAlone(Shared, [f \in DOMAIN NoCutoff |-> Cutoff])

====
